---- MODULE Spec2Model ----
(***************************************************************************)
(* Rusty Navigator: tunnel scrolling, physics and collision core of        *)
(* src/src/main.rs.                                                        *)
(*                                                                         *)
(* Coordinates are f64 in the source.  Every constant of the source is a   *)
(* multiple of 0.0001, so all coordinates (x and y alike) are held here in *)
(* fixed point, in units of 0.0001: 1.0 is 10000, the scroll step 0.001 is *)
(* 10, the thrust delta 0.0001 is 1.  Quotients (normalized, dot) are kept *)
(* as exact fractions.  The arithmetic is exact: the rounding of f64 is    *)
(* not modelled.                                                           *)
(***************************************************************************)
EXTENDS Integers, Sequences, FiniteSets, TLC

VARIABLES
    rng,        \* AppState.rng: [seed, pos], a counter-mode generator
    paused,     \* AppState.paused
    collided,   \* AppState.collided
    heli_pos,   \* AppState.heli_pos
    heli_vel,   \* AppState.heli_vel
    tube,       \* AppState.tube, front (oldest) first
    key_up,     \* keyboard state sampled by the last frame: Up or Space held
    ticks,      \* physics ticks since init_app_state
    last        \* the operation that produced this state, and the mode it
                \* was applied in

vars == <<rng, paused, collided, heli_pos, heli_vel, tube, key_up, ticks,
          last>>

(***************************************************************************)
(* Bounds of the model.                                                    *)
(***************************************************************************)
MaxDraws == 16
MaxTubeDraws == 24
MaxTicks == 150
ReactionTicks == 16
Res == 4

(***************************************************************************)
(* Constants of the program, in units of 0.0001.                           *)
(***************************************************************************)
Seed == 0
SeedMid == 5000
SeedHalf == 4000
SeedX == 4000
HeliX == 1000
HeliY == 5000
ScrollStep == 10
SegmentGap == 2000
ScreenRight == 10000
MidLow == 2000
MidHigh == 8000
HalfLow == 1000
HalfHigh == 2000
ThrustDelta == 1
HELI_RADIUS == 300
RadiusDen == 10000

(***************************************************************************)
(* V2<f64>                                                                 *)
(***************************************************************************)
V2new(x, y) == [x |-> x, y |-> y]

add(a, b) == [x |-> a.x + b.x, y |-> a.y + b.y]

sub(a, b) == [x |-> a.x - b.x, y |-> a.y - b.y]

turn_left(v) == [x |-> 0 - v.y, y |-> v.x]

\* Variant: the components are divided by the length of the vector (its
\* integer part), as for a unit vector.
normalized_unit(v) ==
    LET n == v.x * v.x + v.y * v.y
    IN [x |-> v.x, y |-> v.y,
        den |-> CHOOSE k \in 0..n : k * k <= n /\ n < (k + 1) * (k + 1)]

\* (x / norm, y / norm) with norm = x*x + y*y, kept as the exact fraction
\* (x, y) / den.
normalized(v) == [x |-> v.x, y |-> v.y, den |-> v.x * v.x + v.y * v.y]

\* The denominator of a vector: den for a normalized one, 1 for a plain one.
Den(v) == IF "den" \in DOMAIN v THEN v.den ELSE 1

\* dot of two vectors, each plain or a fraction (x, y) / den: the fraction
\* num / den.
dot(n, other) ==
    [num |-> n.x * other.x + n.y * other.y, den |-> Den(n) * Den(other)]

(***************************************************************************)
(* The random source.  StdRng is a counter-mode stream generator: its      *)
(* state is the seed and the position in the stream.  The generator's      *)
(* stream is library code; Keystream stands for it with Res values.        *)
(***************************************************************************)
Keystream(seed, pos) == (pos * 7 + (pos \div 4) * 3 + seed) % Res

\* rng.gen_range(low, high): one draw, a value in [low, high).
gen_range(r, low, high) ==
    [val |-> low + ((high - low) * Keystream(r.seed, r.pos)) \div Res,
     rng |-> [r EXCEPT !.pos = @ + 1]]

seed_from_u64(s) == [seed |-> s, pos |-> 0]

(***************************************************************************)
(* move_tube                                                               *)
(***************************************************************************)
\* Variant: the front segment is not scrolled (iter_mut().skip(1)).
scroll_skip_front(t) ==
    [i \in 1..Len(t) |-> IF i = 1 THEN t[i] ELSE [t[i] EXCEPT !.x = @ - ScrollStep]]

\* for (p, _) in tube.iter_mut() { p.x -= 0.001 }
scroll(t) == [i \in 1..Len(t) |-> [t[i] EXCEPT !.x = @ - ScrollStep]]

\* Variant: the loop looks at the front segment (tube.get(0)).
RECURSIVE evict_front(_)
evict_front(t) ==
    IF Len(t) >= 1 /\ t[1].x < 0 THEN evict_front(Tail(t)) ELSE t

\* Variant: the front is popped as soon as its successor reaches the left
\* edge (p.x <= 0.0).
RECURSIVE evict_at_zero(_)
evict_at_zero(t) ==
    IF Len(t) >= 2 /\ t[2].x <= 0 THEN evict_at_zero(Tail(t)) ELSE t

\* while tube.get(1).filter(|(p, _)| p.x < 0.0).is_some() { pop_front }
RECURSIVE evict(_)
evict(t) ==
    IF Len(t) >= 2 /\ t[2].x < 0 THEN evict(Tail(t)) ELSE t

\* Variant: the loop stops as soon as the back segment is one gap short of
\* the right edge (p.x >= 1.0 - 1.0 / 5.0).
RECURSIVE extend_short(_, _)
extend_short(t, r) ==
    IF Len(t) > 0 /\ t[Len(t)].x >= ScreenRight - SegmentGap
    THEN [tube |-> t, rng |-> r]
    ELSE LET new_x == IF Len(t) = 0 THEN 0 ELSE t[Len(t)].x + SegmentGap
             d1 == gen_range(r, MidLow, MidHigh)
             d2 == gen_range(d1.rng, HalfLow, HalfHigh)
         IN extend_short(Append(t, [x |-> new_x, y |-> d1.val, r |-> d2.val]),
                         d2.rng)

\* Variant: the half-width is drawn from the midpoint's range and the
\* midpoint from the half-width's (the two gen_range calls swapped).
RECURSIVE extend_swapped(_, _)
extend_swapped(t, r) ==
    IF Len(t) > 0 /\ t[Len(t)].x >= ScreenRight
    THEN [tube |-> t, rng |-> r]
    ELSE LET new_x == IF Len(t) = 0 THEN 0 ELSE t[Len(t)].x + SegmentGap
             d1 == gen_range(r, HalfLow, HalfHigh)
             d2 == gen_range(d1.rng, MidLow, MidHigh)
         IN extend_swapped(Append(t, [x |-> new_x, y |-> d1.val, r |-> d2.val]),
                           d2.rng)

\* Variant: the loop runs until the back segment is one gap beyond the
\* right edge (p.x >= 1.0 + 1.0 / 5.0).
RECURSIVE extend_far(_, _)
extend_far(t, r) ==
    IF Len(t) > 0 /\ t[Len(t)].x >= ScreenRight + SegmentGap
    THEN [tube |-> t, rng |-> r]
    ELSE LET new_x == IF Len(t) = 0 THEN 0 ELSE t[Len(t)].x + SegmentGap
             d1 == gen_range(r, MidLow, MidHigh)
             d2 == gen_range(d1.rng, HalfLow, HalfHigh)
         IN extend_far(Append(t, [x |-> new_x, y |-> d1.val, r |-> d2.val]),
                       d2.rng)

\* while tube.back().filter(|(p, _)| p.x >= 1.0).is_none() { push_back }
RECURSIVE extend(_, _)
extend(t, r) ==
    IF Len(t) > 0 /\ t[Len(t)].x >= ScreenRight
    THEN [tube |-> t, rng |-> r]
    ELSE LET new_x == IF Len(t) = 0 THEN 0 ELSE t[Len(t)].x + SegmentGap
             d1 == gen_range(r, MidLow, MidHigh)
             d2 == gen_range(d1.rng, HalfLow, HalfHigh)
         IN extend(Append(t, [x |-> new_x, y |-> d1.val, r |-> d2.val]),
                   d2.rng)

move_tube(t, r) == extend(evict(scroll(t)), r)

(***************************************************************************)
(* init_app_state                                                          *)
(***************************************************************************)
SeedTube == << [x |-> 0, y |-> SeedMid, r |-> SeedHalf],
               [x |-> SeedX, y |-> SeedMid, r |-> SeedHalf] >>

init_app_state(r) ==
    LET mt == move_tube(SeedTube, r)
    IN [rng |-> mt.rng, paused |-> TRUE, collided |-> FALSE,
        heli_pos |-> V2new(HeliX, HeliY), heli_vel |-> V2new(0, 0),
        tube |-> mt.tube]

(***************************************************************************)
(* Collision detection                                                     *)
(***************************************************************************)
ground(t) == [i \in 1..Len(t) |-> add(V2new(t[i].x, t[i].y), V2new(0, 0 - t[i].r))]

ceiling(t) == [i \in 1..Len(t) |-> add(V2new(t[i].x, t[i].y), V2new(0, t[i].r))]

between(start, end, x) == x > start /\ x < end

max(x, y) == IF x > y THEN x ELSE y

min(x, y) == IF x < y THEN x ELSE y

segment_point_distance(seg_start, seg_end, point) ==
    dot(normalized(turn_left(sub(seg_end, seg_start))), sub(point, seg_start))

\* d < HELI_RADIUS for the fraction d = num / den and the radius
\* HELI_RADIUS / RadiusDen.  A zero den is the NaN of 0.0 / 0.0, which
\* compares false.  For den > 0:
\*   num / den < R / D  <=>  num * D < R * den  <=>  num <= (R*den - 1) div D
\* (the last form, with R / D reduced by 100, keeps the products within the
\* integers of the checker).
less_than_radius(d) ==
    /\ d.den > 0
    /\ d.num <= ((HELI_RADIUS \div 100) * d.den - 1) \div (RadiusDen \div 100)

\* Variant: without the cheap pre-filters on the endpoints' heights.
is_collided_no_prefilter(t, pos) ==
    LET g == ground(t)
        c == ceiling(t)
        hit_ground ==
            \E i \in 1..(Len(t) - 1) :
                /\ between(g[i].x, g[i + 1].x, pos.x)
                /\ less_than_radius(segment_point_distance(g[i], g[i + 1], pos))
        hit_ceiling ==
            \E i \in 1..(Len(t) - 1) :
                /\ between(c[i].x, c[i + 1].x, pos.x)
                /\ less_than_radius(segment_point_distance(c[i + 1], c[i], pos))
    IN hit_ground \/ hit_ceiling

is_collided(t, pos) ==
    LET g == ground(t)
        c == ceiling(t)
        hit_ground ==
            \E i \in 1..(Len(t) - 1) :
                /\ between(g[i].x, g[i + 1].x, pos.x)
                /\ pos.y - HELI_RADIUS < max(g[i].y, g[i + 1].y)
                /\ less_than_radius(segment_point_distance(g[i], g[i + 1], pos))
        hit_ceiling ==
            \E i \in 1..(Len(t) - 1) :
                /\ between(c[i].x, c[i + 1].x, pos.x)
                /\ pos.y + HELI_RADIUS > min(c[i].y, c[i + 1].y)
                /\ less_than_radius(segment_point_distance(c[i + 1], c[i], pos))
    IN hit_ground \/ hit_ceiling

(***************************************************************************)
(* The program: main.  One frame of the 'running loop drains the event     *)
(* queue (PauseEvent, RestartEvent, any number of each) and then runs      *)
(* Frame.  Leaving the loop (Escape, Quit) ends the program and changes    *)
(* nothing: it is the behaviour that stops.                                *)
(***************************************************************************)
\* let mut state = init_app_state(StdRng::seed_from_u64(0));
Init ==
    LET s == init_app_state(seed_from_u64(Seed))
    IN /\ rng = s.rng
       /\ paused = s.paused
       /\ collided = s.collided
       /\ heli_pos = s.heli_pos
       /\ heli_vel = s.heli_vel
       /\ tube = s.tube
       /\ key_up = FALSE
       /\ ticks = 0
       /\ last = [op |-> "init", from |-> "None"]

\* The mode of section 4.5 of the specification the flags stand for.
Mode == IF collided THEN "Collided" ELSE IF paused THEN "Paused" ELSE "Running"

\* Variant: the toggle is ignored while collided.
PauseEvent_unless_collided ==
    /\ paused' = IF collided THEN paused ELSE ~paused
    /\ last' = [op |-> "pause", from |-> Mode]
    /\ UNCHANGED <<rng, collided, heli_pos, heli_vel, tube, key_up, ticks>>

\* Event::KeyDown P => state.paused = !state.paused
PauseEvent ==
    /\ paused' = ~paused
    /\ last' = [op |-> "pause", from |-> Mode]
    /\ UNCHANGED <<rng, collided, heli_pos, heli_vel, tube, key_up, ticks>>

\* Variant: the vehicle and the flags are reset, the tunnel is kept.
Restart_keeps_tube(bound) ==
    LET s == init_app_state(rng)
    IN /\ s.rng.pos <= bound
       /\ paused' = s.paused
       /\ collided' = s.collided
       /\ heli_pos' = s.heli_pos
       /\ heli_vel' = s.heli_vel
       /\ ticks' = 0
       /\ last' = [op |-> "restart", from |-> Mode]
       /\ UNCHANGED <<rng, tube, key_up>>

\* Variant: the random source is seeded again (init_app_state(seed_from_u64(0))).
Restart_reseeds(bound) ==
    LET s == init_app_state(seed_from_u64(Seed))
    IN /\ rng.pos + 8 <= bound
       /\ rng' = s.rng
       /\ paused' = s.paused
       /\ collided' = s.collided
       /\ heli_pos' = s.heli_pos
       /\ heli_vel' = s.heli_vel
       /\ tube' = s.tube
       /\ ticks' = 0
       /\ last' = [op |-> "restart", from |-> Mode]
       /\ UNCHANGED key_up

\* Event::KeyDown R => state = init_app_state(state.rng)
Restart(bound) ==
    LET s == init_app_state(rng)
    IN /\ s.rng.pos <= bound
       /\ rng' = s.rng
       /\ paused' = s.paused
       /\ collided' = s.collided
       /\ heli_pos' = s.heli_pos
       /\ heli_vel' = s.heli_vel
       /\ tube' = s.tube
       /\ ticks' = 0
       /\ last' = [op |-> "restart", from |-> Mode]
       /\ UNCHANGED key_up

RestartEvent == Restart(MaxDraws)

\* Variant: the thrust delta is applied before the position is advanced.
Frame_velocity_first(input_up) ==
    LET p == IF input_up THEN FALSE ELSE paused
        vel == [heli_vel EXCEPT
                   !.y = IF input_up THEN @ + ThrustDelta ELSE @ - ThrustDelta]
        pos == add(heli_pos, vel)
        mt == move_tube(tube, rng)
    IN /\ input_up # key_up => ticks % ReactionTicks = 0
       /\ key_up' = input_up
       /\ paused' = p
       /\ IF ~collided /\ ~p
          THEN /\ ticks < MaxTicks
               /\ mt.rng.pos <= MaxDraws
               /\ heli_pos' = pos
               /\ heli_vel' = vel
               /\ tube' = mt.tube
               /\ rng' = mt.rng
               /\ collided' = is_collided(mt.tube, pos)
               /\ ticks' = ticks + 1
               /\ last' = [op |-> "tick", from |-> Mode]
          ELSE /\ UNCHANGED <<rng, collided, heli_pos, heli_vel, tube, ticks>>
               /\ last' = [op |-> "idle", from |-> Mode]

\* Variant: the physics step runs whenever the simulation is not paused,
\* collided or not.
Frame_ignores_collided(input_up) ==
    LET p == IF input_up THEN FALSE ELSE paused
        pos == add(heli_pos, heli_vel)
        vel == [heli_vel EXCEPT
                   !.y = IF input_up THEN @ + ThrustDelta ELSE @ - ThrustDelta]
        mt == move_tube(tube, rng)
    IN /\ input_up # key_up => ticks % ReactionTicks = 0
       /\ key_up' = input_up
       /\ paused' = p
       /\ IF ~p
          THEN /\ ticks < MaxTicks
               /\ mt.rng.pos <= MaxDraws
               /\ heli_pos' = pos
               /\ heli_vel' = vel
               /\ tube' = mt.tube
               /\ rng' = mt.rng
               /\ collided' = is_collided(mt.tube, pos)
               /\ ticks' = ticks + 1
               /\ last' = [op |-> "tick", from |-> Mode]
          ELSE /\ UNCHANGED <<rng, collided, heli_pos, heli_vel, tube, ticks>>
               /\ last' = [op |-> "idle", from |-> Mode]

\* Variant: the physics step runs whenever the simulation is not
\* collided, paused or not.
Frame_ignores_paused(input_up) ==
    LET p == IF input_up THEN FALSE ELSE paused
        pos == add(heli_pos, heli_vel)
        vel == [heli_vel EXCEPT
                   !.y = IF input_up THEN @ + ThrustDelta ELSE @ - ThrustDelta]
        mt == move_tube(tube, rng)
    IN /\ input_up # key_up => ticks % ReactionTicks = 0
       /\ key_up' = input_up
       /\ paused' = p
       /\ IF ~collided
          THEN /\ ticks < MaxTicks
               /\ mt.rng.pos <= MaxDraws
               /\ heli_pos' = pos
               /\ heli_vel' = vel
               /\ tube' = mt.tube
               /\ rng' = mt.rng
               /\ collided' = is_collided(mt.tube, pos)
               /\ ticks' = ticks + 1
               /\ last' = [op |-> "tick", from |-> Mode]
          ELSE /\ UNCHANGED <<rng, collided, heli_pos, heli_vel, tube, ticks>>
               /\ last' = [op |-> "idle", from |-> Mode]

\* Variant: the thrust delta is applied to the x component of the velocity.
Frame_thrust_x(input_up) ==
    LET p == IF input_up THEN FALSE ELSE paused
        pos == add(heli_pos, heli_vel)
        vel == [heli_vel EXCEPT
                   !.x = IF input_up THEN @ + ThrustDelta ELSE @ - ThrustDelta]
        mt == move_tube(tube, rng)
    IN /\ input_up # key_up => ticks % ReactionTicks = 0
       /\ key_up' = input_up
       /\ paused' = p
       /\ IF ~collided /\ ~p
          THEN /\ ticks < MaxTicks
               /\ mt.rng.pos <= MaxDraws
               /\ heli_pos' = pos
               /\ heli_vel' = vel
               /\ tube' = mt.tube
               /\ rng' = mt.rng
               /\ collided' = is_collided(mt.tube, pos)
               /\ ticks' = ticks + 1
               /\ last' = [op |-> "tick", from |-> Mode]
          ELSE /\ UNCHANGED <<rng, collided, heli_pos, heli_vel, tube, ticks>>
               /\ last' = [op |-> "idle", from |-> Mode]

\* Variant: holding the thrust key does not clear paused.
Frame_no_unpause(input_up) ==
    LET p == paused
        pos == add(heli_pos, heli_vel)
        vel == [heli_vel EXCEPT
                   !.y = IF input_up THEN @ + ThrustDelta ELSE @ - ThrustDelta]
        mt == move_tube(tube, rng)
    IN /\ input_up # key_up => ticks % ReactionTicks = 0
       /\ key_up' = input_up
       /\ paused' = p
       /\ IF ~collided /\ ~p
          THEN /\ ticks < MaxTicks
               /\ mt.rng.pos <= MaxDraws
               /\ heli_pos' = pos
               /\ heli_vel' = vel
               /\ tube' = mt.tube
               /\ rng' = mt.rng
               /\ collided' = is_collided(mt.tube, pos)
               /\ ticks' = ticks + 1
               /\ last' = [op |-> "tick", from |-> Mode]
          ELSE /\ UNCHANGED <<rng, collided, heli_pos, heli_vel, tube, ticks>>
               /\ last' = [op |-> "idle", from |-> Mode]

\* Variant: the vertical velocity only changes while the thrust key is held.
Frame_no_gravity(input_up) ==
    LET p == IF input_up THEN FALSE ELSE paused
        pos == add(heli_pos, heli_vel)
        vel == [heli_vel EXCEPT
                   !.y = IF input_up THEN @ + ThrustDelta ELSE @]
        mt == move_tube(tube, rng)
    IN /\ input_up # key_up => ticks % ReactionTicks = 0
       /\ key_up' = input_up
       /\ paused' = p
       /\ IF ~collided /\ ~p
          THEN /\ ticks < MaxTicks
               /\ mt.rng.pos <= MaxDraws
               /\ heli_pos' = pos
               /\ heli_vel' = vel
               /\ tube' = mt.tube
               /\ rng' = mt.rng
               /\ collided' = is_collided(mt.tube, pos)
               /\ ticks' = ticks + 1
               /\ last' = [op |-> "tick", from |-> Mode]
          ELSE /\ UNCHANGED <<rng, collided, heli_pos, heli_vel, tube, ticks>>
               /\ last' = [op |-> "idle", from |-> Mode]

\* The rest of the frame once the event queue is drained: the thrust key
\* is sampled (input_up), thrust un-pauses, and the physics step runs when
\* the simulation is neither collided nor paused.  The player changes the
\* state of the thrust key at most every ReactionTicks ticks.
Frame(input_up) ==
    LET p == IF input_up THEN FALSE ELSE paused
        pos == add(heli_pos, heli_vel)
        vel == [heli_vel EXCEPT
                   !.y = IF input_up THEN @ + ThrustDelta ELSE @ - ThrustDelta]
        mt == move_tube(tube, rng)
    IN /\ input_up # key_up => ticks % ReactionTicks = 0
       /\ key_up' = input_up
       /\ paused' = p
       /\ IF ~collided /\ ~p
          THEN /\ ticks < MaxTicks
               /\ mt.rng.pos <= MaxDraws
               /\ heli_pos' = pos
               /\ heli_vel' = vel
               /\ tube' = mt.tube
               /\ rng' = mt.rng
               /\ collided' = is_collided(mt.tube, pos)
               /\ ticks' = ticks + 1
               /\ last' = [op |-> "tick", from |-> Mode]
          ELSE /\ UNCHANGED <<rng, collided, heli_pos, heli_vel, tube, ticks>>
               /\ last' = [op |-> "idle", from |-> Mode]

Next ==
    \/ PauseEvent
    \/ RestartEvent
    \/ \E input_up \in BOOLEAN : Frame(input_up)

Spec == Init /\ [][Next]_vars

(***************************************************************************)
(* The tunnel generator on its own: move_tube called tick after tick,      *)
(* with restarts, for as long as the vehicle survives.  Every tunnel the   *)
(* program reaches is reached here.                                        *)
(***************************************************************************)
TubeTick ==
    LET mt == move_tube(tube, rng)
    IN /\ mt.rng.pos <= MaxTubeDraws
       /\ tube' = mt.tube
       /\ rng' = mt.rng
       /\ last' = [op |-> "move_tube", from |-> Mode]
       /\ UNCHANGED <<paused, collided, heli_pos, heli_vel, key_up, ticks>>

TubeRestart == Restart(MaxTubeDraws)

TubeNext == TubeTick \/ TubeRestart

TubeSpec == Init /\ [][TubeNext]_vars

(***************************************************************************)
(* is_collided on its own: the tunnel and the vehicle position are drawn   *)
(* from bounded sets and the collision test is applied once.               *)
(***************************************************************************)
TestMid == {3000, 5000}
TestHalf == {1000, 4000}
TestY == {500, 1059, 1060, 1100, 1300, 4300, 5000, 8700, 8941, 9500}
TestLayouts == { <<0, 2000>>, <<-990, 1010>>,
                 <<-1000, 1000, 3000>>, <<-990, 1010, 3010>> }

TestTubes ==
    UNION { { [i \in 1..Len(xs) |-> [x |-> xs[i], y |-> ys[i], r |-> rs[i]]] :
                ys \in [1..Len(xs) -> TestMid], rs \in [1..Len(xs) -> TestHalf] } :
            xs \in TestLayouts }

\* Whole tunnels as move_tube leaves them: two seed segments and five
\* generated ones, 299 ticks after init_app_state (a segment right at the
\* vehicle's x) and one tick before.
FullLayouts == { <<-3000, 1000, 3000, 5000, 7000, 9000, 11000>>,
                 <<-2990, 1010, 3010, 5010, 7010, 9010, 11010>> }
FullMid == {3500, 6500}
FullHalf == {1000, 1750}

FullTubes ==
    { [i \in 1..Len(xs) |->
          IF i <= 2 THEN [x |-> xs[i], y |-> SeedMid, r |-> SeedHalf]
          ELSE IF i = 3 THEN [x |-> xs[i], y |-> m, r |-> h]
          ELSE [x |-> xs[i], y |-> 5000, r |-> 1500]] :
      xs \in FullLayouts, m \in FullMid, h \in FullHalf }

CollideInit ==
    /\ tube \in TestTubes \cup FullTubes
    /\ heli_pos \in { V2new(HeliX, y) : y \in TestY }
    /\ heli_vel = V2new(0, 0)
    /\ rng = seed_from_u64(Seed)
    /\ paused = FALSE
    /\ collided = FALSE
    /\ key_up = FALSE
    /\ ticks = 0
    /\ last = [op |-> "input", from |-> "None"]

\* state.collided = is_collided(&state)
CollisionTest ==
    /\ last.op = "input"
    /\ collided' = is_collided(tube, heli_pos)
    /\ last' = [op |-> "is_collided", from |-> "None"]
    /\ UNCHANGED <<rng, paused, heli_pos, heli_vel, tube, key_up, ticks>>

CollideNext == CollisionTest

CollideSpec == CollideInit /\ [][CollideNext]_vars

(***************************************************************************)
(* The frame loop with the thrust key released and no events: Running      *)
(* states of a run, n ticks after init_app_state, left to themselves.  The *)
(* loop of main never stops by itself, hence the fairness of the frame.    *)
(***************************************************************************)

\* One physics tick of the tunnel and the generator.
tube_tick(a) ==
    LET mt == move_tube(a.tube, a.rng)
    IN [tube |-> SubSeq(mt.tube, 1, Len(mt.tube)), rng |-> mt.rng]

RECURSIVE advance(_, _, _)
\* The tunnel and the generator after n physics ticks: the first half of
\* the ticks, then the rest from the state they leave.
advance(t, r, n) ==
    IF n = 0 THEN [tube |-> t, rng |-> r]
    ELSE IF n = 1 THEN tube_tick([tube |-> t, rng |-> r])
    ELSE CHOOSE b \in { advance(h.tube, h.rng, n - n \div 2) :
                          h \in {advance(t, r, n \div 2)} } : TRUE

\* <<ticks played, heli_pos.y, heli_vel.y>> of the start states.
FallStarts ==
    { <<0, 5000, 0>>, <<150, 8000, 20>>, <<150, 3000, -60>>,
      <<150, 5000, -50>>, <<150, 6000, 0>>, <<298, 1120, -122>>,
      <<298, 8500, 0>>, <<298, 5000, 10>> }

FallInit ==
    \E st \in FallStarts :
        LET s == init_app_state(seed_from_u64(Seed))
            a == advance(s.tube, s.rng, st[1])
        IN /\ tube = a.tube
           /\ rng = a.rng
           /\ heli_pos = V2new(HeliX, st[2])
           /\ heli_vel = V2new(0, st[3])
           /\ ~is_collided(a.tube, heli_pos)
           /\ paused = FALSE
           /\ collided = FALSE
           /\ key_up = FALSE
           /\ ticks = 0
           /\ last = [op |-> "input", from |-> "None"]

FallNext == Frame(FALSE)

FallSpec == FallInit /\ [][FallNext]_vars /\ WF_vars(FallNext)

(***************************************************************************)
(* The vector operations on their own: normalized, dot and                 *)
(* segment_point_distance applied to small integer vectors.  heli_vel is   *)
(* the vector, the ground of the two segments of tube the edge, heli_pos   *)
(* the point; the value returned is last.ret.                              *)
(***************************************************************************)
VecMax == 4

VecInputs == { V2new(x, y) : x, y \in (0 - VecMax)..VecMax }

VecEdges ==
    { << [x |-> 0, y |-> 1, r |-> 0], [x |-> 2, y |-> 1, r |-> 0] >>,
      << [x |-> 0, y |-> 0, r |-> 0], [x |-> 3, y |-> 4, r |-> 0] >>,
      << [x |-> -1, y |-> 3, r |-> 1], [x |-> 1, y |-> 0, r |-> 1] >> }

VecPoints == { V2new(1, 0), V2new(1, 3), V2new(2, -2) }

VecInit ==
    /\ heli_vel \in VecInputs
    /\ tube \in VecEdges
    /\ heli_pos \in VecPoints
    /\ rng = seed_from_u64(Seed)
    /\ paused = TRUE
    /\ collided = FALSE
    /\ key_up = FALSE
    /\ ticks = 0
    /\ last = [op |-> "input", from |-> "None", ret |-> 0]

Returns(op, value) ==
    /\ last.op = "input"
    /\ last' = [op |-> op, from |-> "None", ret |-> value]
    /\ UNCHANGED <<rng, paused, collided, heli_pos, heli_vel, tube, key_up,
                   ticks>>

NormalizedTest == Returns("normalized", normalized(heli_vel))

DotTest == Returns("dot", dot(normalized(heli_vel), normalized(heli_vel)))

DistanceTest ==
    Returns("segment_point_distance",
            segment_point_distance(ground(tube)[1], ground(tube)[2], heli_pos))

VecNext == NormalizedTest \/ DotTest \/ DistanceTest

VecSpec == VecInit /\ [][VecNext]_vars

(***************************************************************************)
(* Properties                                                              *)
(***************************************************************************)
Back(t) == t[Len(t)]

InitX == << 0 - ScrollStep,
            SeedX - ScrollStep,
            SeedX - ScrollStep + SegmentGap,
            SeedX - ScrollStep + 2 * SegmentGap,
            SeedX - ScrollStep + 3 * SegmentGap,
            SeedX - ScrollStep + 4 * SegmentGap >>

\* C1: after init_app_state and after every move_tube, whatever the ticks
\* and restarts before, the tunnel holds at least 2 segments and the x of
\* its newest (back) segment is >= 1.0.
C1_QueueCoversRight ==
    /\ Len(tube) >= 2
    /\ Back(tube).x >= ScreenRight

\* A tick that evicted the front segment and appended a new back segment.
C1_Witness ==
    /\ last.op = "move_tube"
    /\ rng.pos >= 12
    /\ tube[1].x = SeedX - ScrollStep - 2 * SegmentGap
    /\ Back(tube).x = ScreenRight + SegmentGap - ScrollStep
    /\ C1_QueueCoversRight

\* C2: after init_app_state and after every move_tube the x coordinates
\* are strictly increasing from the front to the back of the queue.
C2_StrictlyIncreasingX ==
    \A i \in 1..(Len(tube) - 1) : tube[i].x < tube[i + 1].x

\* A tick after which the queue has scrolled, evicted twice and extended
\* three times, and is still ordered.
C2_Witness ==
    /\ last.op = "move_tube"
    /\ rng.pos = 14
    /\ Len(tube) = 7
    /\ tube[1].x < 0
    /\ tube[2].x = SegmentGap - ScrollStep
    /\ C2_StrictlyIncreasingX

\* The scenario of C3: flat ground from (0, 0.1) to (0.2, 0.1), the vehicle
\* at (0.1, 0.11).
C3_Scenario ==
    /\ Len(tube) = 2
    /\ tube[1].x = 0 /\ tube[1].y - tube[1].r = 1000
    /\ tube[2].x = 2000 /\ tube[2].y - tube[2].r = 1000
    /\ heli_pos = V2new(1000, 1100)

\* C3: with the vehicle at (0.1, 0.11) over the flat ground edge from
\* (0, 0.1) to (0.2, 0.1), is_collided reports a collision: the vehicle's x
\* is strictly within the edge and its distance 0.01 to the ground is less
\* than the radius 0.03.
C3_FlatGroundCollides ==
    (last.op = "is_collided" /\ C3_Scenario) => collided

\* The pairs of consecutive segments whose x-range strictly contains the
\* vehicle's x.
Containing(t, pos) ==
    { i \in 1..(Len(t) - 1) : t[i].x < pos.x /\ pos.x < t[i + 1].x }

Higher(a, b) == IF a >= b THEN a ELSE b

Lower(a, b) == IF a <= b THEN a ELSE b

\* For every containing pair the vehicle's y - 0.03 is not below the higher
\* ground endpoint and its y + 0.03 is not above the lower ceiling endpoint.
Clear(t, pos) ==
    \A i \in Containing(t, pos) :
        /\ pos.y - 300 >= Higher(t[i].y - t[i].r, t[i + 1].y - t[i + 1].r)
        /\ pos.y + 300 <= Lower(t[i].y + t[i].r, t[i + 1].y + t[i + 1].r)

\* C4: is_collided returns false whenever, for each pair of consecutive
\* segments whose x-range strictly contains the vehicle's x, the vehicle
\* keeps 0.03 above the higher ground endpoint and 0.03 below the lower
\* ceiling endpoint; pairs that do not strictly contain the vehicle's x
\* never cause a collision.
C4_ClearOfEndpointsNoCollision ==
    (last.op = "is_collided" /\ Clear(tube, heli_pos)) => ~collided

\* The vehicle at (0.1, 0.5) over flat ground at y = 0.1, tested.
C4_Witness ==
    /\ last.op = "is_collided"
    /\ Containing(tube, heli_pos) = {1}
    /\ tube[1].y - tube[1].r = 1000
    /\ tube[2].y - tube[2].r = 1000
    /\ heli_pos = V2new(1000, 5000)
    /\ Clear(tube, heli_pos)
    /\ ~collided

\* C5: a restart event, processed in any mode, replaces the simulation
\* state by the initial one: vehicle at (0.1, 0.5) with velocity (0, 0),
\* collided = false, paused = true, and the tunnel init_app_state builds
\* from the two seed segments and the next draws of the random source;
\* nothing of the previous vehicle or tunnel survives.
C5_RestartResets ==
    [][last'.op = "restart" =>
          /\ heli_pos' = [x |-> HeliX, y |-> HeliY]
          /\ heli_vel' = [x |-> 0, y |-> 0]
          /\ ~collided'
          /\ paused'
          /\ Len(tube') = Len(InitX)
          /\ \A i \in 1..2 :
                tube'[i] = [x |-> InitX[i], y |-> SeedMid, r |-> SeedHalf]
          /\ \A i \in 3..Len(InitX) :
                LET k == rng.pos + 2 * (i - 3)
                IN tube'[i] =
                      [x |-> InitX[i],
                       y |-> MidLow
                               + ((MidHigh - MidLow) * Keystream(rng.seed, k)) \div Res,
                       r |-> HalfLow
                               + ((HalfHigh - HalfLow) * Keystream(rng.seed, k + 1)) \div Res]
    ]_vars

\* A restart processed while Collided, after the vehicle and the tunnel
\* have moved.
C5_Witness ==
    /\ last = [op |-> "restart", from |-> "Collided"]
    /\ rng.pos = 16
    /\ heli_pos = [x |-> HeliX, y |-> HeliY]
    /\ ~collided

\* C6: a restart never re-seeds the random source: its state after the
\* restart is its state before, advanced by two draws per segment that
\* init_app_state appends; over any step the seed is kept and the draw
\* position never decreases.
C6_RngCarriedForward ==
    [][/\ rng'.seed = rng.seed
       /\ rng'.pos >= rng.pos
       /\ last'.op = "restart" =>
             rng'.pos = rng.pos + 2 * (Len(tube') - Len(SeedTube))
    ]_vars

\* A restart processed while Running: the random source has moved on by
\* the 8 draws of the 4 appended segments from where the first
\* initialisation left it.
C6_Witness ==
    /\ last = [op |-> "restart", from |-> "Running"]
    /\ rng = [seed |-> Seed, pos |-> 16]
    /\ Len(tube) = Len(SeedTube) + 4

\* C8: once collided is true it stays true, whatever thrust or pause
\* toggle arrives, until a restart event is processed.
C8_CollidedUntilRestart ==
    [][(collided /\ last'.op # "restart") => collided']_vars

\* A frame executed with the thrust key held while collided.
C8_Witness ==
    /\ collided
    /\ key_up
    /\ last = [op |-> "idle", from |-> "Collided"]

\* C9 as claimed: a pause toggle flips the paused flag if and only if the
\* simulation is not collided; while collided it changes nothing in the
\* simulation state.
C9_Original ==
    [][last'.op = "pause" =>
          IF collided
          THEN UNCHANGED <<rng, paused, collided, heli_pos, heli_vel, tube>>
          ELSE paused' = ~paused
    ]_vars

\* C9 (amended): a pause toggle flips the paused flag in every mode, also
\* while collided, and changes nothing else in the simulation state.
C9_PauseAlwaysFlips ==
    [][last'.op = "pause" =>
          /\ paused' = ~paused
          /\ UNCHANGED <<rng, collided, heli_pos, heli_vel, tube>>
    ]_vars

\* A pause toggle processed while collided: the flag has flipped.
C9_Witness ==
    /\ last = [op |-> "pause", from |-> "Collided"]
    /\ collided
    /\ paused

\* C10 as claimed: in a physics tick the velocity is updated first and the
\* position is advanced by the updated velocity.
C10_Original ==
    [][last'.op = "tick" =>
          /\ heli_vel'.y = heli_vel.y + (IF key_up' THEN ThrustDelta ELSE 0 - ThrustDelta)
          /\ heli_pos' = [x |-> heli_pos.x + heli_vel'.x, y |-> heli_pos.y + heli_vel'.y]
    ]_vars

\* C10 (amended): in a physics tick the position is advanced by the
\* velocity as it was before the tick, and then the thrust delta is applied
\* to the velocity: + 0.0001 when thrust is held, - 0.0001 otherwise.
C10_PositionThenVelocity ==
    [][last'.op = "tick" =>
          /\ heli_vel'.y = heli_vel.y + (IF key_up' THEN ThrustDelta ELSE 0 - ThrustDelta)
          /\ heli_pos' = [x |-> heli_pos.x + heli_vel.x, y |-> heli_pos.y + heli_vel.y]
    ]_vars

\* A tick with thrust held, taken while the vehicle was falling.
C10_Witness ==
    /\ last.op = "tick"
    /\ key_up
    /\ heli_vel.y < 0
    /\ heli_pos.y < HeliY

\* C11: after init_app_state and after every move_tube the queue spans the
\* visible window: the front x is <= 0 and the back x is >= 1.0, so the
\* vehicle's x lies strictly inside the tunnel's span.
C11_SpansWindow ==
    /\ tube[1].x <= 0
    /\ Back(tube).x >= ScreenRight
    /\ tube[1].x < heli_pos.x
    /\ heli_pos.x < Back(tube).x

\* A tick that has just evicted the first seed segment: the second seed is
\* the new front, one scroll step left of the edge.
C11_Witness ==
    /\ last.op = "move_tube"
    /\ rng.pos = 12
    /\ tube[1] = [x |-> 0 - ScrollStep, y |-> SeedMid, r |-> SeedHalf]
    /\ C11_SpansWindow

\* The x coordinates of a queue after the scroll step.
ScrolledX(t) == [i \in 1..Len(t) |-> t[i].x - ScrollStep]

\* The number of segments a move_tube step popped from the front.
Evicted == (rng'.pos - rng.pos) \div 2 + Len(tube) - Len(tube')

\* C12: after every tick the second-oldest segment's x is >= 0, so at most
\* the front segment has x < 0; a tick pops segments only from the front
\* (what is left is the scrolled rest of the queue, in order) and pops one
\* only when the x of its successor has dropped below 0.
C12_EvictOnlyPassedFront ==
    /\ [](/\ tube[2].x >= 0
          /\ Cardinality({i \in 1..Len(tube) : tube[i].x < 0}) <= 1)
    /\ [][last'.op = "move_tube" =>
             /\ Evicted \in 0..(Len(tube) - 1)
             /\ \A i \in 1..(Len(tube) - Evicted) :
                   tube'[i] = [tube[i + Evicted] EXCEPT !.x = @ - ScrollStep]
             /\ \A j \in 1..Evicted : ScrolledX(tube)[j + 1] < 0
       ]_vars

\* A tick that popped the front: the new front is the old second segment,
\* now left of the edge.
C12_Witness ==
    /\ last.op = "move_tube"
    /\ rng.pos = 14
    /\ tube[1].x = 0 - ScrollStep
    /\ tube[2].x = SegmentGap - ScrollStep
    /\ Len(tube) = 7

IsSeed(s) == s.y = SeedMid /\ s.r = SeedHalf

\* C13: every generated segment lies 0.2 right of its predecessor, with
\* midpoint in [0.2, 0.8] and half-width in [0.1, 0.2]; every segment, seed
\* or generated, has ground >= 0, ceiling <= 1 and an opening of at least
\* 0.2, wider than the vehicle's diameter 0.06.
C13_SegmentShape ==
    /\ \A i \in 1..Len(tube) :
          /\ \/ IsSeed(tube[i]) /\ i <= 2
             \/ /\ tube[i].y >= 2000 /\ tube[i].y <= 8000
                /\ tube[i].r >= 1000 /\ tube[i].r <= 2000
          /\ tube[i].y - tube[i].r >= 0
          /\ tube[i].y + tube[i].r <= 10000
          /\ 2 * tube[i].r >= 2000
          /\ 2 * tube[i].r > 2 * 300
    /\ \A i \in 1..(Len(tube) - 1) :
          \/ tube[i + 1].x = tube[i].x + 2000
          \/ /\ i = 1 /\ IsSeed(tube[1]) /\ IsSeed(tube[2])
             /\ tube[2].x = tube[1].x + 4000

\* A tick that appended a segment to a queue of generated segments only.
C13_Witness ==
    /\ last.op = "move_tube"
    /\ rng.pos = 16
    /\ Back(tube).x = ScreenRight + SegmentGap - ScrollStep
    /\ \A i \in 1..Len(tube) : ~IsSeed(tube[i])
    /\ C13_SegmentShape

\* C18: after init_app_state and after every tick, for any sequence of
\* ticks and restarts, the queue holds at most 7 segments, and a tick pops
\* at most one segment and appends at most one.
C18_QueueBounded ==
    /\ [](Len(tube) <= 7)
    /\ [][last'.op = "move_tube" =>
             /\ rng'.pos - rng.pos \in {0, 2}
             /\ Evicted \in {0, 1}
             /\ Len(tube') = Len(tube) - Evicted + (rng'.pos - rng.pos) \div 2
       ]_vars

\* A tick that popped one segment and appended one, on a full queue.
C18_Witness ==
    /\ last.op = "move_tube"
    /\ Len(tube) = 7
    /\ rng.pos = 16
    /\ tube[1].x = 0 - ScrollStep
    /\ Back(tube).x = ScreenRight + SegmentGap - ScrollStep

\* C14: physics is performed only in Running: a frame that finds the
\* simulation collided, or paused with the thrust key not held, and a
\* pause toggle in any mode, leave the vehicle's position and velocity,
\* the tunnel, the random source and the collided flag unchanged.
C14_NoPhysicsUnlessRunning ==
    [][(\/ /\ last'.op \in {"idle", "tick"}
           /\ collided \/ (paused /\ ~key_up')
        \/ last'.op = "pause")
       => UNCHANGED <<heli_pos, heli_vel, tube, rng, collided>>
    ]_vars

\* A frame that left a simulation paused in mid-flight as it was.
C14_Witness ==
    /\ last = [op |-> "idle", from |-> "Paused"]
    /\ paused
    /\ ~key_up
    /\ ticks > 0
    /\ heli_vel.y # 0

\* C15: the vehicle is fixed horizontally: its position.x is 0.1 and its
\* velocity.x is 0 in every reachable state.
C15_FixedInX ==
    /\ heli_pos.x = 1000
    /\ heli_vel.x = 0

\* A tick taken while the vehicle was moving vertically.
C15_Witness ==
    /\ last.op = "tick"
    /\ heli_vel.y > 1
    /\ heli_pos.y > HeliY
    /\ C15_FixedInX

\* C16: in a frame in which the thrust key is held, paused is false when
\* the physics step is evaluated, so a simulation that is not collided
\* performs a physics tick in that very frame, whatever events (pause
\* toggle, restart) were processed before.
C16_ThrustUnpauses ==
    [][(last'.op \in {"idle", "tick"} /\ key_up') =>
          /\ ~paused'
          /\ ~collided =>
                /\ last'.op = "tick"
                /\ ticks' = ticks + 1
                /\ tube' # tube
                /\ heli_vel'.y = heli_vel.y + ThrustDelta
    ]_vars

\* The first tick after a restart, taken from the paused state the restart
\* left, with the thrust key held.
C16_Witness ==
    /\ last = [op |-> "tick", from |-> "Paused"]
    /\ key_up
    /\ ~paused
    /\ ticks = 1
    /\ rng.pos = 16

\* The invariants of the tunnel (C1, C2, C11, C12, C13).
TunnelInvariants(t) ==
    /\ Len(t) >= 2
    /\ \A i \in 1..(Len(t) - 1) : t[i].x < t[i + 1].x
    /\ t[1].x <= 0
    /\ t[2].x >= 0
    /\ t[Len(t)].x >= 10000
    /\ \A i \in 1..Len(t) :
          /\ t[i].y - t[i].r >= 0
          /\ t[i].y + t[i].r <= 10000
          /\ 2 * t[i].r >= 2000

\* The point pos is strictly below (sign = 1) or strictly above (sign = -1)
\* the polyline through the points (t[i].x, t[i].y + off * t[i].r) at x =
\* pos.x, by linear interpolation on an edge that holds pos.x.
Beyond(t, pos, off, sign) ==
    \E i \in 1..(Len(t) - 1) :
        /\ t[i].x <= pos.x
        /\ pos.x <= t[i + 1].x
        /\ LET y1 == t[i].y + off * t[i].r
               y2 == t[i + 1].y + off * t[i + 1].r
           IN sign * (pos.y - y1) * (t[i + 1].x - t[i].x)
                 < sign * (y2 - y1) * (pos.x - t[i].x)

BelowGround(t, pos) == Beyond(t, pos, -1, 1)

AboveCeiling(t, pos) == Beyond(t, pos, 1, -1)

OutsideOpening ==
    /\ TunnelInvariants(tube)
    /\ tube[1].x < heli_pos.x
    /\ heli_pos.x < Back(tube).x
    /\ BelowGround(tube, heli_pos) \/ AboveCeiling(tube, heli_pos)

\* C17: for every tunnel that satisfies the tunnel invariants and every
\* vehicle position with x strictly between the front and the back x, a
\* centre strictly below the ground polyline or strictly above the ceiling
\* polyline makes is_collided return true.
C17_OutsideCollides ==
    (last.op = "is_collided" /\ OutsideOpening) => collided

\* Off the segments' x the test is complete: a vehicle outside the opening
\* whose x is not the x of any segment is found collided.
OutsideCollidesOffVertex ==
    (/\ last.op = "is_collided"
     /\ OutsideOpening
     /\ \A i \in 1..Len(tube) : tube[i].x # heli_pos.x) => collided

\* The vehicle above the ceiling of a whole tunnel, between two segments,
\* tested and found collided.
OutsideOffVertex_Witness ==
    /\ last.op = "is_collided"
    /\ Len(tube) = 7
    /\ TunnelInvariants(tube)
    /\ AboveCeiling(tube, heli_pos)
    /\ \A i \in 1..Len(tube) : tube[i].x # heli_pos.x
    /\ collided

\* C19: from every Running state (not paused, not collided), when frames
\* keep being executed with the thrust key released and without pause or
\* restart events, collided eventually becomes true.
C19_UnthrustedRunCollides ==
    (~paused /\ ~collided) ~> collided

\* A released vehicle that passed below the ground right at a segment's x
\* without being noticed, and was found collided by the next tick.
C19_Witness ==
    /\ collided
    /\ ~paused
    /\ ~key_up
    /\ last = [op |-> "tick", from |-> "Running"]
    /\ ticks = 2
    /\ heli_vel.y < 0

\* C20: for a non-zero vector v = (x, y), normalized(v) is
\* (x / (x^2 + y^2), y / (x^2 + y^2)) and dot(normalized(v), normalized(v))
\* is 1 / (x^2 + y^2); segment_point_distance returns the signed
\* perpendicular distance of the point from the edge (positive on the left
\* of start -> end) divided by the length L of the edge, that is
\* cross / L^2 with cross = L * distance.
C20_SquaredNormDivision ==
    LET v == heli_vel
        n2 == v.x * v.x + v.y * v.y
        seg_start == ground(tube)[1]
        seg_end == ground(tube)[2]
        dx == seg_end.x - seg_start.x
        dy == seg_end.y - seg_start.y
        cross == dx * (heli_pos.y - seg_start.y) - dy * (heli_pos.x - seg_start.x)
    IN /\ (last.op = "normalized" /\ n2 # 0) =>
              /\ last.ret.den # 0
              /\ last.ret.x * n2 = v.x * last.ret.den
              /\ last.ret.y * n2 = v.y * last.ret.den
       /\ (last.op = "dot" /\ n2 # 0) =>
              /\ last.ret.den # 0
              /\ last.ret.num * n2 = last.ret.den
       /\ last.op = "segment_point_distance" =>
              /\ last.ret.den # 0
              /\ last.ret.num * (dx * dx + dy * dy) = cross * last.ret.den

\* The point (1, 3) at distance 1 on the left of the edge (0, 0) -> (3, 4)
\* of length 5: segment_point_distance returned 1/5.
C20_Witness ==
    /\ last.op = "segment_point_distance"
    /\ ground(tube)[1] = V2new(0, 0)
    /\ ground(tube)[2] = V2new(3, 4)
    /\ heli_pos = V2new(1, 3)
    /\ last.ret.num > 0
    /\ last.ret.num * 5 = last.ret.den

====
